---- MODULE Spec2Model ----
(***************************************************************************)
(* Module registry and execution engine of the Lazy Framework shell        *)
(* (src/main.py): directory scan, static metadata extraction, dynamic      *)
(* loading of a module file, the option store of the loaded module and     *)
(* the commands of the read-eval-print loop.                               *)
(*                                                                         *)
(* Strings that are paths or keys are modelled as sequences of path        *)
(* segments: "examples/aux/echo.py" is <<"examples", "aux", "echo.py">>.   *)
(* A segment never contains the separator, so joining with "/" and         *)
(* splitting at "/" are inverse to each other on these values.             *)
(***************************************************************************)
EXTENDS Integers, Sequences, FiniteSets, TLC

\* ------------------------------------------------------------------------
\* Bounds of the model
\* ------------------------------------------------------------------------

\* number of changes made to the files on disk (write, delete) in one run
MaxFsOps == 2

\* ------------------------------------------------------------------------
\* Python values that occur as option values
\* ------------------------------------------------------------------------

StrVal(s) == [t |-> "str", v |-> s]
IntVal(s) == [t |-> "int", v |-> s]
\* Python's None: what dict.get returns for a missing key
None == [t |-> "NoneType", v |-> ""]

\* values a user types after `set <option>`: always strings (" ".join(args[1:]))
SetValues == {StrVal("hi"), StrVal("yo")}

\* option names a user types after `set`
SetNames == {"MSG", "VERBOSE", "RHOST", "RPORT", "BOGUS"}

\* ------------------------------------------------------------------------
\* Module files: what a file on disk contains
\* ------------------------------------------------------------------------

\* one entry of an OPTIONS dict: name -> {"required", "default"?, "description"}
Opt(n, hd, d) == [name |-> n, has_default |-> hd, default |-> d]

\* examples/recon/sysinfo.py as written by ensure_examples
SysInfo ==
    [readable |-> TRUE, exec |-> "ok", description |-> "Print local system info",
     has_OPTIONS |-> TRUE,
     OPTIONS |-> <<Opt("VERBOSE", TRUE, StrVal("true"))>>,
     run |-> "ok"]

\* examples/aux/echo.py as written by ensure_examples
Echo ==
    [readable |-> TRUE, exec |-> "ok", description |-> "Echo string back (safe)",
     has_OPTIONS |-> TRUE,
     OPTIONS |-> <<Opt("MSG", TRUE, StrVal(""))>>,
     run |-> "ok"]

\* a user module: one option without "default", one with an int default,
\* and a run() that raises
Scanner ==
    [readable |-> TRUE, exec |-> "ok", description |-> "Port scanner",
     has_OPTIONS |-> TRUE,
     OPTIONS |-> <<Opt("RHOST", FALSE, None), Opt("RPORT", TRUE, IntVal("80"))>>,
     run |-> "raise"]

\* a user module that defines run() only: no OPTIONS, no description field
NoOpts ==
    [readable |-> TRUE, exec |-> "ok", description |-> "",
     has_OPTIONS |-> FALSE, OPTIONS |-> <<>>, run |-> "ok"]

\* a file whose top-level code raises when executed (syntax error, bad import)
Broken ==
    [readable |-> TRUE, exec |-> "raise", description |-> "Work in progress",
     has_OPTIONS |-> TRUE,
     OPTIONS |-> <<Opt("MSG", TRUE, StrVal(""))>>,
     run |-> "ok"]

\* a file that exists but cannot be opened (permissions)
Unreadable ==
    [readable |-> FALSE, exec |-> "raise", description |-> "Echo string back (safe)",
     has_OPTIONS |-> TRUE,
     OPTIONS |-> <<Opt("MSG", TRUE, StrVal(""))>>,
     run |-> "ok"]


\* ------------------------------------------------------------------------
\* Paths
\* ------------------------------------------------------------------------

MODULE_DIR == "modules"
EXAMPLES_DIR == "examples"

\* (folder, prefix) pairs in the order scan_modules walks them
Roots == <<[folder |-> MODULE_DIR, prefix |-> "modules"],
           [folder |-> EXAMPLES_DIR, prefix |-> "examples"]>>

Path(folder, rel) == [folder |-> folder, rel |-> rel]

\* the two files of EXAMPLES
SysInfoPath == Path(EXAMPLES_DIR, <<"recon", "sysinfo.py">>)
EchoPath == Path(EXAMPLES_DIR, <<"aux", "echo.py">>)

\* *.py files that may exist under the two roots
Paths ==
    {SysInfoPath, EchoPath,
     Path(MODULE_DIR, <<"aux", "echo.py">>),
     Path(MODULE_DIR, <<"examples", "x.py">>)}

\* what may be written to each path
FileContents(p) ==
    IF p = SysInfoPath THEN {SysInfo, Unreadable}
    ELSE IF p = EchoPath THEN {Echo, Broken}
    ELSE IF p = Path(MODULE_DIR, <<"aux", "echo.py">>) THEN {Echo, Scanner}
    ELSE {NoOpts}

\* ------------------------------------------------------------------------
\* State
\* ------------------------------------------------------------------------

VARIABLES
    fs,             \* the module files on disk: path -> content
    fs_ops,         \* number of changes made to fs so far
    modules,        \* LazyFramework.modules: key -> path
    metadata,       \* LazyFramework.metadata: key -> {"description", "options"}
    order,          \* insertion order of the two dicts (they are filled together)
    loaded_module,  \* LazyFramework.loaded_module: NoInstance or a ModuleInstance
    session,        \* LazyFramework.session
    out,            \* what the last command printed
    pc              \* "repl": reading commands; "crashed": an exception escaped repl()

vars == <<fs, fs_ops, modules, metadata, order, loaded_module, session, out, pc>>

\* ------------------------------------------------------------------------
\* Helpers
\* ------------------------------------------------------------------------

Range(s) == {s[i] : i \in DOMAIN s}

\* all orderings of a finite set, as sequences without repetition
Perms(S) == {s \in [1..Cardinality(S) -> S] : Range(s) = S}

\* dict.get(k, d)
Get(d, k, default) == IF k \in DOMAIN d THEN d[k] ELSE default

\* d[k] = v on a dict
Put(d, k, v) == [x \in DOMAIN d \cup {k} |-> IF x = k THEN v ELSE d[x]]

EmptyDict == [x \in {} |-> None]

\* ------------------------------------------------------------------------
\* Text: the strings search and show work on, as sequences of characters
\* ------------------------------------------------------------------------

\* the characters that occur, in code point order
Ascii == <<" ", "(", ")", ".", "/", "A", "B", "C", "D", "E", "F", "G", "H", "I", "J", "K", "L", "M", "N", "O", "P", "Q", "R", "S", "T", "U", "V", "W", "X", "Y", "Z", "_", "a", "b", "c", "d", "e", "f", "g", "h", "i", "j", "k", "l", "m", "n", "o", "p", "q", "r", "s", "t", "u", "v", "w", "x", "y", "z">>

\* ord(c), tabulated
OrdTable == [c \in {Ascii[i] : i \in DOMAIN Ascii} |-> CHOOSE i \in DOMAIN Ascii : Ascii[i] = c]

ord(c) == OrdTable[c]

\* str.lower() of one character: "A".."Z" are 27 places before "a".."z"
char_lower(c) == IF ord(c) >= ord("A") /\ ord(c) <= ord("Z") THEN Ascii[ord(c) + 27] ELSE c

\* str.lower()
lower(t) == [i \in DOMAIN t |-> char_lower(t[i])]

\* needle in hay, for strings
contains(needle, hay) ==
    \E i \in 0..(Len(hay) - Len(needle)) : SubSeq(hay, i + 1, i + Len(needle)) = needle

\* a < b, for strings
RECURSIVE str_lt(_, _)
str_lt(a, b) ==
    IF b = <<>> THEN FALSE
    ELSE IF a = <<>> THEN TRUE
    ELSE IF a[1] # b[1] THEN ord(a[1]) < ord(b[1])
    ELSE str_lt(Tail(a), Tail(b))

\* the characters of the path segments and descriptions that occur
Chars(s) ==
    CASE s = "modules" -> <<"m", "o", "d", "u", "l", "e", "s">>
      [] s = "examples" -> <<"e", "x", "a", "m", "p", "l", "e", "s">>
      [] s = "aux" -> <<"a", "u", "x">>
      [] s = "recon" -> <<"r", "e", "c", "o", "n">>
      [] s = "echo.py" -> <<"e", "c", "h", "o", ".", "p", "y">>
      [] s = "sysinfo.py" -> <<"s", "y", "s", "i", "n", "f", "o", ".", "p", "y">>
      [] s = "x.py" -> <<"x", ".", "p", "y">>
      [] s = "Print local system info" -> <<"P", "r", "i", "n", "t", " ", "l", "o", "c", "a", "l", " ", "s", "y", "s", "t", "e", "m", " ", "i", "n", "f", "o">>
      [] s = "Echo string back (safe)" -> <<"E", "c", "h", "o", " ", "s", "t", "r", "i", "n", "g", " ", "b", "a", "c", "k", " ", "(", "s", "a", "f", "e", ")">>
      [] s = "Port scanner" -> <<"P", "o", "r", "t", " ", "s", "c", "a", "n", "n", "e", "r">>
      [] s = "Work in progress" -> <<"W", "o", "r", "k", " ", "i", "n", " ", "p", "r", "o", "g", "r", "e", "s", "s">>
      [] s = "(no description)" -> <<"(", "n", "o", " ", "d", "e", "s", "c", "r", "i", "p", "t", "i", "o", "n", ")">>
      [] OTHER -> <<>>

\* a key as the string the program holds: its segments joined by "/"
RECURSIVE key_str(_)
key_str(key) ==
    IF key = <<>> THEN <<>>
    ELSE IF Len(key) = 1 THEN Chars(key[1])
    ELSE Chars(key[1]) \o <<"/">> \o key_str(Tail(key))

\* ------------------------------------------------------------------------
\* scan_modules and _read_meta
\* ------------------------------------------------------------------------

\* the names the second regex of _read_meta finds: the text between
\* "OPTIONS = {" and the first "}" holds the first option's name and the keys
\* of its inner dict
meta_options(c) ==
    IF ~c.has_OPTIONS \/ c.OPTIONS = <<>> THEN <<>>
    ELSE <<c.OPTIONS[1].name, "required">>
         \o (IF c.OPTIONS[1].has_default THEN <<"default">> ELSE <<>>)
         \o <<"description">>

_read_meta(c) ==
    IF ~c.readable
    THEN [description |-> "", options |-> <<>>]
    ELSE [description |-> c.description, options |-> meta_options(c)]

\* a key without its namespace
module_key_without_prefix(prefix, rel) == rel

\* key = f"{prefix}/{rel}" with the separators of rel normalised to "/"
module_key(prefix, rel) == <<prefix>> \o rel

\* scan_modules that registers the metadata of readable files only
RECURSIVE scan_loop_skips_metadata(_, _, _, _)
scan_loop_skips_metadata(fsys, found, i, acc) ==
    IF i > Len(found) THEN acc
    ELSE LET p == found[i].path
             key == module_key(found[i].prefix, p.rel)
         IN scan_loop_skips_metadata(fsys, found, i + 1,
                [modules |-> Put(acc.modules, key, p),
                 metadata |-> IF fsys[p].readable
                              THEN Put(acc.metadata, key, _read_meta(fsys[p]))
                              ELSE acc.metadata,
                 order |-> IF key \in DOMAIN acc.modules THEN acc.order
                           ELSE Append(acc.order, key)])

\* the loop body of scan_modules over the files found, in the order found;
\* found[i] is a record [prefix, path]
RECURSIVE scan_loop(_, _, _, _)
scan_loop(fsys, found, i, acc) ==
    IF i > Len(found) THEN acc
    ELSE LET p == found[i].path
             key == module_key(found[i].prefix, p.rel)
         IN scan_loop(fsys, found, i + 1,
                [modules |-> Put(acc.modules, key, p),
                 metadata |-> Put(acc.metadata, key, _read_meta(fsys[p])),
                 order |-> IF key \in DOMAIN acc.modules THEN acc.order
                           ELSE Append(acc.order, key)])

\* the files folder.rglob("*.py") yields
FilesUnder(fsys, folder) == {p \in DOMAIN fsys : p.folder = folder}

\* the orders in which the two rglob calls may yield the files: modules first,
\* then examples, the order inside a folder being the file system's
Listings(fsys) ==
    {[i \in 1..(Len(a) + Len(b)) |->
        IF i <= Len(a) THEN [prefix |-> Roots[1].prefix, path |-> a[i]]
        ELSE [prefix |-> Roots[2].prefix, path |-> b[i - Len(a)]]] :
     a \in Perms(FilesUnder(fsys, Roots[1].folder)),
     b \in Perms(FilesUnder(fsys, Roots[2].folder))}

\* a clear() that leaves the registry as it is
clear_nothing(registry) == registry

\* self.modules.clear(); self.metadata.clear()
clear(registry) == [modules |-> EmptyDict, metadata |-> EmptyDict, order |-> <<>>]

\* scan_modules that gives up at the first file that cannot be read
scan_modules_stops_at_unreadable(fsys, found, registry) ==
    LET bad == {i \in DOMAIN found : ~fsys[found[i].path].readable}
        stop == IF bad = {} THEN Len(found) + 1
                ELSE CHOOSE i \in bad : \A j \in bad : i <= j
    IN scan_loop(fsys, SubSeq(found, 1, stop - 1), 1, clear(registry))

\* scan_modules on the registry as it is before the call
scan_modules(fsys, found, registry) == scan_loop(fsys, found, 1, clear(registry))

\* the two dicts as __init__ creates them
EmptyRegistry == [modules |-> EmptyDict, metadata |-> EmptyDict, order |-> <<>>]

\* every key and every name relative to a root that the paths give
KnownNames == {module_key(p.folder, p.rel) : p \in Paths} \cup {p.rel : p \in Paths}

\* the descriptions _read_meta can find
Descriptions ==
    {"", SysInfo.description, Echo.description, Scanner.description, Broken.description}

\* names a user types after `use`
UseNames == KnownNames \cup {<<"nope.py">>}

\* keywords a user types after `search`
Keywords ==
    {<<>>, <<"e", "c", "h", "o">>, <<"E", "C", "H", "O">>, <<"S", "a", "f", "e">>,
     <<"E", "X", "A", "M", "P", "L", "E", "S", "/", "A", "U", "X", "/", "E", "C", "H", "O", ".", "P", "Y">>, <<"z", "z", "z">>}

\* ------------------------------------------------------------------------
\* Output of a command
\* ------------------------------------------------------------------------

\* msg: the text, without the values formatted into it; error: the exception
\* printed or escaping; rows: the lines listed; passed: the mapping a module's
\* run() was called with
Msg(m) == [msg |-> m, error |-> "", rows |-> <<>>, passed |-> EmptyDict]

\* ------------------------------------------------------------------------
\* Construction
\* ------------------------------------------------------------------------

\* no module loaded (Python's None in loaded_module)
NoInstance ==
    [name |-> <<>>,
     module |-> [has_OPTIONS |-> FALSE, OPTIONS |-> <<>>, run |-> "ok"],
     options |-> EmptyDict]

\* main(): ensure_examples() writes the example files, then LazyFramework()
\* scans them; modules/ is created empty
Init ==
    /\ fs = (SysInfoPath :> SysInfo) @@ (EchoPath :> Echo)
    /\ fs_ops = 0
    /\ \E found \in Listings(fs) :
          LET r == scan_modules(fs, found, EmptyRegistry)
          IN /\ modules = r.modules
             /\ metadata = r.metadata
             /\ order = r.order
    /\ loaded_module = NoInstance
    /\ session = [user |-> "unknown"]
    /\ out = Msg("")
    /\ pc = "repl"

\* ------------------------------------------------------------------------
\* The environment: files are written and deleted while the shell runs
\* ------------------------------------------------------------------------

WriteFile(p, c) ==
    /\ pc = "repl"
    /\ fs_ops < MaxFsOps
    /\ Get(fs, p, NoOpts) # c \/ p \notin DOMAIN fs
    /\ fs' = Put(fs, p, c)
    /\ fs_ops' = fs_ops + 1
    /\ UNCHANGED <<modules, metadata, order, loaded_module, session, out, pc>>

DeleteFile(p) ==
    /\ pc = "repl"
    /\ fs_ops < MaxFsOps
    /\ p \in DOMAIN fs
    /\ fs' = [q \in DOMAIN fs \ {p} |-> fs[q]]
    /\ fs_ops' = fs_ops + 1
    /\ UNCHANGED <<modules, metadata, order, loaded_module, session, out, pc>>

\* ------------------------------------------------------------------------
\* ModuleInstance
\* ------------------------------------------------------------------------

\* the names of an OPTIONS dict
option_names(OPTIONS) == {OPTIONS[i].name : i \in DOMAIN OPTIONS}

\* set_option with the assignment made before the test
set_option_stores_first(inst, key, value) ==
    [raised |-> key \notin option_names(inst.module.OPTIONS),
     options |-> Put(inst.options, key, value)]

\* ModuleInstance.set_option: the outcome and the options after the call
set_option(inst, key, value) ==
    IF key \notin option_names(inst.module.OPTIONS)
    THEN [raised |-> TRUE, options |-> inst.options]
    ELSE [raised |-> FALSE, options |-> Put(inst.options, key, value)]

\* get_options that reads the schema only
get_options_defaults_only(inst) ==
    [i \in DOMAIN inst.module.OPTIONS |->
        LET v == inst.module.OPTIONS[i]
        IN [name |-> v.name,
            value |-> IF v.has_default THEN v.default ELSE None,
            has_default |-> v.has_default,
            default |-> v.default]]

\* ModuleInstance.get_options: one row per entry of module.OPTIONS, in its
\* order; "value" is options.get(k, v.get("default"))
get_options(inst) ==
    [i \in DOMAIN inst.module.OPTIONS |->
        LET v == inst.module.OPTIONS[i]
        IN [name |-> v.name,
            value |-> Get(inst.options, v.name,
                          IF v.has_default THEN v.default ELSE None),
            has_default |-> v.has_default,
            default |-> v.default]]

\* run that hands over the declared defaults, whatever was set
run_argument_defaults_only(inst) ==
    LET OPTIONS == inst.module.OPTIONS
        declared == {i \in DOMAIN OPTIONS : OPTIONS[i].has_default}
    IN [k \in {OPTIONS[i].name : i \in declared} |->
          OPTIONS[CHOOSE i \in declared : OPTIONS[i].name = k].default]

\* ModuleInstance.run: the mapping handed to module.run(session, ...)
run_argument(inst) == inst.options

\* ------------------------------------------------------------------------
\* import_module
\* ------------------------------------------------------------------------

\* the module object executing a file yields
module_object(c) == [has_OPTIONS |-> c.has_OPTIONS, OPTIONS |-> c.OPTIONS, run |-> c.run]

\* import_module that hands back the module object of the current session when
\* its key is asked for again
import_module_reuses_loaded(key) ==
    IF key \notin DOMAIN modules
    THEN [raised |-> TRUE, error |-> "KeyError", mod |-> module_object(NoOpts)]
    ELSE IF loaded_module.name = key
    THEN [raised |-> FALSE, error |-> "", mod |-> loaded_module.module]
    ELSE LET path == modules[key]
         IN IF path \notin DOMAIN fs
            THEN [raised |-> TRUE, error |-> "FileNotFoundError", mod |-> module_object(NoOpts)]
            ELSE IF ~fs[path].readable
            THEN [raised |-> TRUE, error |-> "PermissionError", mod |-> module_object(NoOpts)]
            ELSE IF fs[path].exec # "ok"
            THEN [raised |-> TRUE, error |-> "Exception", mod |-> module_object(NoOpts)]
            ELSE [raised |-> FALSE, error |-> "", mod |-> module_object(fs[path])]

import_module(key) ==
    IF key \notin DOMAIN modules
    THEN [raised |-> TRUE, error |-> "KeyError", mod |-> module_object(NoOpts)]
    ELSE LET path == modules[key]
         IN IF path \notin DOMAIN fs
            THEN [raised |-> TRUE, error |-> "FileNotFoundError", mod |-> module_object(NoOpts)]
            ELSE IF ~fs[path].readable
            THEN [raised |-> TRUE, error |-> "PermissionError", mod |-> module_object(NoOpts)]
            ELSE IF fs[path].exec # "ok"
            THEN [raised |-> TRUE, error |-> "Exception", mod |-> module_object(NoOpts)]
            ELSE [raised |-> FALSE, error |-> "", mod |-> module_object(fs[path])]

\* ------------------------------------------------------------------------
\* Commands
\* ------------------------------------------------------------------------

Loaded == loaded_module # NoInstance

\* cmd_scan that unloads a session whose key the scan no longer finds
cmd_scan_drops_stale_session ==
    /\ pc = "repl"
    /\ \E found \in Listings(fs) :
          LET r == scan_modules(fs, found,
                        [modules |-> modules, metadata |-> metadata, order |-> order])
          IN /\ modules' = r.modules
             /\ metadata' = r.metadata
             /\ order' = r.order
             /\ out' = [Msg("Scanned") EXCEPT !.rows = r.order]
             /\ loaded_module' = IF loaded_module.name \in DOMAIN r.modules
                                 THEN loaded_module ELSE NoInstance
    /\ UNCHANGED <<fs, fs_ops, session, pc>>

cmd_scan ==
    /\ pc = "repl"
    /\ \E found \in Listings(fs) :
          LET r == scan_modules(fs, found,
                        [modules |-> modules, metadata |-> metadata, order |-> order])
          IN /\ modules' = r.modules
             /\ metadata' = r.metadata
             /\ order' = r.order
             /\ out' = [Msg("Scanned") EXCEPT !.rows = r.order]
    /\ UNCHANGED <<fs, fs_ops, loaded_module, session, pc>>

\* key.startswith(("modules/", "examples/"))
has_prefix(key) == Len(key) >= 2 /\ key[1] \in {"modules", "examples"}

\* cmd_use trying the prefixes in the order examples, modules
resolve_key_examples_first(key) ==
    IF has_prefix(key) THEN key
    ELSE IF <<"examples">> \o key \in DOMAIN modules THEN <<"examples">> \o key
    ELSE IF <<"modules">> \o key \in DOMAIN modules THEN <<"modules">> \o key
    ELSE key

\* the key cmd_use loads for the name typed
resolve_key(key) ==
    IF has_prefix(key) THEN key
    ELSE IF <<"modules">> \o key \in DOMAIN modules THEN <<"modules">> \o key
    ELSE IF <<"examples">> \o key \in DOMAIN modules THEN <<"examples">> \o key
    ELSE key

\* a ModuleInstance whose options dict is the one of the instance before it
ModuleInstance_shares_options(name, module) ==
    [name |-> name, module |-> module, options |-> loaded_module.options]

\* ModuleInstance(name, module): a new instance, its options empty
ModuleInstance(name, module) ==
    [name |-> name, module |-> module, options |-> EmptyDict]

\* a loop of cmd_use that copies nothing
fill_defaults_copies_nothing(OPTIONS, i, options) == options

\* the loop of cmd_use that copies the declared defaults into inst.options
RECURSIVE fill_defaults(_, _, _)
fill_defaults(OPTIONS, i, options) ==
    IF i > Len(OPTIONS) THEN options
    ELSE fill_defaults(OPTIONS, i + 1,
            IF OPTIONS[i].has_default
            THEN Put(options, OPTIONS[i].name, OPTIONS[i].default)
            ELSE options)

\* cmd_use that drops the session when the load fails
use_result_unloads(name) ==
    LET key == resolve_key(name)
        imp == import_module(key)
    IN IF imp.raised \/ ~imp.mod.has_OPTIONS
       THEN [loaded_module |-> NoInstance,
             out |-> [Msg("Load error:") EXCEPT !.error = "Exception"]]
       ELSE [loaded_module |->
                [ModuleInstance(key, imp.mod) EXCEPT !.options =
                    fill_defaults(imp.mod.OPTIONS, 1, @)],
             out |-> Msg("Loaded module")]

\* what cmd_use leaves in loaded_module and prints, for the name typed
use_result(name) ==
    LET key == resolve_key(name)
        imp == import_module(key)
    IN IF imp.raised
       THEN [loaded_module |-> loaded_module,
             out |-> [Msg("Load error:") EXCEPT !.error = imp.error]]
       ELSE IF ~imp.mod.has_OPTIONS
       THEN [loaded_module |-> loaded_module,
             out |-> [Msg("Load error:") EXCEPT !.error = "AttributeError"]]
       ELSE [loaded_module |->
                [ModuleInstance(key, imp.mod) EXCEPT !.options =
                    fill_defaults(imp.mod.OPTIONS, 1, @)],
             out |-> Msg("Loaded module")]

\* cmd_use that treats `use` without a name as `back`
cmd_use_without_name_unloads(args) ==
    /\ pc = "repl"
    /\ IF args = <<>>
       THEN /\ out' = Msg("Usage: use <module>")
            /\ loaded_module' = NoInstance
       ELSE LET r == use_result(args[1])
            IN /\ loaded_module' = r.loaded_module
               /\ out' = r.out
    /\ UNCHANGED <<fs, fs_ops, modules, metadata, order, session, pc>>

cmd_use(args) ==
    /\ pc = "repl"
    /\ IF args = <<>>
       THEN /\ out' = Msg("Usage: use <module>")
            /\ UNCHANGED loaded_module
       ELSE LET r == use_result(args[1])
            IN /\ loaded_module' = r.loaded_module
               /\ out' = r.out
    /\ UNCHANGED <<fs, fs_ops, modules, metadata, order, session, pc>>

\* format(value, "10") in the row cmd_options prints: TypeError for None
format_raises(value) == value.t = "NoneType"

cmd_options ==
    /\ pc = "repl"
    /\ IF ~Loaded
       THEN /\ out' = Msg("No module loaded.")
            /\ UNCHANGED pc
       ELSE LET rows == get_options(loaded_module)
            IN IF \E i \in DOMAIN rows : format_raises(rows[i].value)
               THEN /\ out' = [Msg("Traceback") EXCEPT !.error = "TypeError"]
                    /\ pc' = "crashed"
               ELSE /\ out' = [Msg("Options for") EXCEPT !.rows = rows]
                    /\ UNCHANGED pc
    /\ UNCHANGED <<fs, fs_ops, modules, metadata, order, loaded_module, session>>

\* cmd_set that tests the number of arguments before the loaded module
cmd_set_counts_arguments_first(args) ==
    /\ pc = "repl"
    /\ IF Len(args) < 2
       THEN /\ out' = Msg("Usage: set <option> <value>")
            /\ UNCHANGED loaded_module
       ELSE IF ~Loaded
       THEN /\ out' = Msg("No module loaded.")
            /\ UNCHANGED loaded_module
       ELSE LET r == set_option(loaded_module, args[1], args[2])
            IN IF r.raised
               THEN /\ out' = [Msg("Unknown option") EXCEPT !.error = "KeyError"]
                    /\ loaded_module' = [loaded_module EXCEPT !.options = r.options]
               ELSE /\ out' = Msg("=>")
                    /\ loaded_module' = [loaded_module EXCEPT !.options = r.options]
    /\ UNCHANGED <<fs, fs_ops, modules, metadata, order, session, pc>>

cmd_set(args) ==
    /\ pc = "repl"
    /\ IF ~Loaded
       THEN /\ out' = Msg("No module loaded.")
            /\ UNCHANGED loaded_module
       ELSE IF Len(args) < 2
       THEN /\ out' = Msg("Usage: set <option> <value>")
            /\ UNCHANGED loaded_module
       ELSE LET r == set_option(loaded_module, args[1], args[2])
            IN IF r.raised
               THEN /\ out' = [Msg("Unknown option") EXCEPT !.error = "KeyError"]
                    /\ loaded_module' = [loaded_module EXCEPT !.options = r.options]
               ELSE /\ out' = Msg("=>")
                    /\ loaded_module' = [loaded_module EXCEPT !.options = r.options]
    /\ UNCHANGED <<fs, fs_ops, modules, metadata, order, session, pc>>

\* cmd_run that unloads the module when its run() raises
cmd_run_unloads ==
    /\ pc = "repl"
    /\ IF ~Loaded
       THEN /\ out' = Msg("No module loaded.")
            /\ UNCHANGED loaded_module
       ELSE IF loaded_module.module.run = "raise"
       THEN /\ out' = [Msg("Run error:") EXCEPT
                         !.error = "Exception", !.passed = run_argument(loaded_module)]
            /\ loaded_module' = NoInstance
       ELSE /\ out' = [Msg("run returned") EXCEPT !.passed = run_argument(loaded_module)]
            /\ UNCHANGED loaded_module
    /\ UNCHANGED <<fs, fs_ops, modules, metadata, order, session, pc>>

cmd_run ==
    /\ pc = "repl"
    /\ IF ~Loaded
       THEN out' = Msg("No module loaded.")
       ELSE IF loaded_module.module.run = "raise"
       THEN out' = [Msg("Run error:") EXCEPT
                      !.error = "Exception", !.passed = run_argument(loaded_module)]
       ELSE out' = [Msg("run returned") EXCEPT !.passed = run_argument(loaded_module)]
    /\ UNCHANGED <<fs, fs_ops, modules, metadata, order, loaded_module, session, pc>>

cmd_back ==
    /\ pc = "repl"
    /\ IF Loaded
       THEN /\ out' = Msg("Unloaded")
            /\ loaded_module' = NoInstance
       ELSE /\ out' = Msg("No module loaded.")
            /\ UNCHANGED loaded_module
    /\ UNCHANGED <<fs, fs_ops, modules, metadata, order, session, pc>>

\* k1 < k2 for two keys, tabulated for the keys that occur
KeyLess == [a \in KnownNames |-> [b \in KnownNames |-> str_lt(key_str(a), key_str(b))]]

key_lt(a, b) ==
    IF a \in KnownNames /\ b \in KnownNames THEN KeyLess[a][b]
    ELSE str_lt(key_str(a), key_str(b))

\* sorted(self.metadata.items()): the keys in ascending string order; the key
\* at place i has i - 1 keys below it
sorted_keys(meta) ==
    [i \in 1..Cardinality(DOMAIN meta) |->
        CHOOSE k \in DOMAIN meta :
            Cardinality({j \in DOMAIN meta : key_lt(j, k)}) = i - 1]

\* cmd_show that lists the entries that have a description only
cmd_show_hides_undescribed ==
    /\ pc = "repl"
    /\ out' = [Msg("Available modules:") EXCEPT !.rows =
                 LET ks == sorted_keys([k \in {x \in DOMAIN metadata :
                                                  metadata[x].description # ""}
                                          |-> metadata[k]])
                 IN [i \in DOMAIN ks |-> <<ks[i], metadata[ks[i]].description>>]]
    /\ UNCHANGED <<fs, fs_ops, modules, metadata, order, loaded_module, session, pc>>

cmd_show ==
    /\ pc = "repl"
    /\ out' = [Msg("Available modules:") EXCEPT !.rows =
                 LET ks == sorted_keys(metadata)
                 IN [i \in DOMAIN ks |-> <<ks[i], metadata[ks[i]].description>>]]
    /\ UNCHANGED <<fs, fs_ops, modules, metadata, order, loaded_module, session, pc>>

\* the test of search_modules for one entry
matches(keyword, key, description) ==
    \/ contains(keyword, lower(key_str(key)))
    \/ contains(keyword, lower(Chars(description)))

\* matches, tabulated for the keywords, keys and descriptions that occur
MatchTable ==
    [kw \in {lower(k) : k \in Keywords} \cup {lower(key_str(n)) : n \in KnownNames} |->
        [key \in KnownNames |-> [d \in Descriptions |-> matches(kw, key, d)]]]

\* the loop of search_modules: the entries that match, in iteration order
RECURSIVE select_matching(_, _, _)
select_matching(keys, meta, keyword) ==
    IF keys = <<>> THEN <<>>
    ELSE LET key == keys[1]
             hit == IF keyword \in DOMAIN MatchTable /\ key \in KnownNames
                       /\ meta[key].description \in Descriptions
                    THEN MatchTable[keyword][key][meta[key].description]
                    ELSE matches(keyword, key, meta[key].description)
         IN (IF hit THEN <<<<key, meta[key].description>>>> ELSE <<>>)
            \o select_matching(Tail(keys), meta, keyword)

\* search_modules without keyword.lower()
search_modules_case_sensitive(keys, meta, keyword) == select_matching(keys, meta, keyword)

\* Search.search_modules: iterates metadata in insertion order
search_modules(keys, meta, keyword) == select_matching(keys, meta, lower(keyword))

cmd_search(args) ==
    /\ pc = "repl"
    /\ IF args = <<>>
       THEN out' = Msg("Usage: search <keyword>")
       ELSE out' = [Msg("search") EXCEPT !.rows = search_modules(order, metadata, args[1])]
    /\ UNCHANGED <<fs, fs_ops, modules, metadata, order, loaded_module, session, pc>>

Next ==
    \/ \E p \in Paths : \E c \in FileContents(p) : WriteFile(p, c)
    \/ \E p \in Paths : DeleteFile(p)
    \/ cmd_scan
    \/ \E args \in {<<>>} \cup {<<n>> : n \in UseNames} : cmd_use(args)
    \/ cmd_options
    \/ \E args \in {<<"MSG">>} \cup (SetNames \X SetValues) : cmd_set(args)
    \/ cmd_run
    \/ cmd_back
    \/ cmd_show
    \/ \E args \in {<<>>} \cup {<<k>> : k \in Keywords} : cmd_search(args)

Spec == Init /\ [][Next]_vars

\* ------------------------------------------------------------------------
\* Properties
\* ------------------------------------------------------------------------

\* the key a path gets: its root's namespace, then its relative path
KeyOf(p) == <<p.folder>> \o p.rel

\* the schema of the loaded module
Schema == loaded_module.module.OPTIONS

\* some option holds a value that was typed with `set`
HasOverride == \E k \in DOMAIN loaded_module.options : loaded_module.options[k] \in SetValues

\* `use <name>` cannot load: the name resolves to no registered key, or the
\* registered file is gone, cannot be read or raises when executed
UseCannotLoad(name) ==
    LET key == resolve_key(name)
    IN \/ key \notin DOMAIN modules
       \/ modules[key] \notin DOMAIN fs
       \/ ~fs[modules[key]].readable
       \/ fs[modules[key]].exec # "ok"

\* C1: a `use` that cannot load never reports a loaded module, and a step
\* that prints a load error leaves loaded_module as it was: the same session
\* when one was loaded, none when none was loaded.
C1_FailedUseKeepsSession ==
    [][/\ out'.msg = "Load error:" => loaded_module' = loaded_module
       /\ out'.msg = "Loaded module" =>
            \A n \in UseNames : cmd_use(<<n>>) => ~UseCannotLoad(n)]_vars

\* a load error was printed while a session with an override is loaded
C1_Witness == out.msg = "Load error:" /\ Loaded /\ HasOverride

\* C2: `set` with a name outside the schema of the loaded module is never
\* accepted, and a step that prints the unknown-option error leaves the
\* option store (and the rest of the session) as it was.
C2_UnknownOptionKeepsStore ==
    [][/\ out'.msg = "Unknown option" => loaded_module' = loaded_module
       /\ out'.msg = "=>" =>
            \A a \in SetNames \X SetValues : cmd_set(a) => a[1] \in option_names(Schema)]_vars

\* an unknown option was rejected in a session that has an override
C2_Witness == out.msg = "Unknown option" /\ Loaded /\ HasOverride

\* the value of the row get_options gives for an option name
RowValue(inst, name) ==
    LET rows == get_options(inst)
    IN rows[CHOOSE i \in DOMAIN rows : rows[i].name = name].value

\* the declared default of a schema entry, None when it declares none
DeclaredDefault(v) == IF v.has_default THEN v.default ELSE None

\* C3: get_options lists the schema's names in order; right after a `use` it
\* reports every option's declared default (None when there is none); a
\* successful `set name v` makes it report v for name and changes no other
\* row; no other command changes what it reports for the loaded module.
C3_GetOptionsReportsOverrideElseDefault ==
    [][/\ Loaded' =>
            /\ Len(get_options(loaded_module')) = Len(Schema')
            /\ \A i \in DOMAIN Schema' : get_options(loaded_module')[i].name = Schema'[i].name
       /\ out'.msg = "Loaded module" =>
            \A i \in DOMAIN Schema' :
                get_options(loaded_module')[i].value = DeclaredDefault(Schema'[i])
       /\ out'.msg = "=>" =>
            \A a \in SetNames \X SetValues :
              cmd_set(a) =>
                /\ Schema' = Schema
                /\ \A i \in DOMAIN Schema :
                     get_options(loaded_module')[i].value =
                        IF Schema[i].name = a[1] THEN a[2]
                        ELSE get_options(loaded_module)[i].value
       /\ (Loaded /\ get_options(loaded_module') # get_options(loaded_module)) =>
            out'.msg \in {"Loaded module", "=>", "Unloaded"}]_vars

\* `options` listed a row with a value that was set and a row with its default
C3_Witness ==
    /\ out.msg = "Options for"
    /\ \E i \in DOMAIN out.rows : out.rows[i].value \in SetValues
    /\ \E i \in DOMAIN out.rows :
         out.rows[i].value \notin SetValues /\ out.rows[i].value = out.rows[i].default

\* a module's run() was the last thing called
RunCalled == out.msg \in {"run returned", "Run error:"}

\* C4 as claimed: the mapping run() receives has one entry for each option
\* name of the schema, with the value get_options reports for it.
C4_RunGetsEveryOption ==
    RunCalled =>
        /\ DOMAIN out.passed = option_names(Schema)
        /\ \A k \in DOMAIN out.passed : out.passed[k] = RowValue(loaded_module, k)

\* C4 amended: the mapping run() receives has an entry for exactly the
\* options for which get_options reports a value (a declared default or a
\* value set), and the entry is that value; an option without a declared
\* default that was never set has no entry.
C4_RunGetsStore ==
    RunCalled =>
        /\ DOMAIN out.passed \subseteq option_names(Schema)
        /\ \A i \in DOMAIN Schema :
             LET k == Schema[i].name
             IN IF RowValue(loaded_module, k) = None
                THEN k \notin DOMAIN out.passed
                ELSE k \in DOMAIN out.passed /\ out.passed[k] = RowValue(loaded_module, k)

\* run() was called with a value that was set, a declared default, and
\* without an entry for an option that has neither
C4_Witness ==
    /\ RunCalled
    /\ \E k \in DOMAIN out.passed : out.passed[k] \in SetValues
    /\ \E i \in DOMAIN Schema :
         ~Schema[i].has_default /\ Schema[i].name \notin DOMAIN out.passed

\* the file registered under `key` is on disk, readable, executes without
\* raising, and defines no OPTIONS
FileWithoutOPTIONS(key) ==
    /\ key \in DOMAIN modules
    /\ modules[key] \in DOMAIN fs
    /\ fs[modules[key]].readable
    /\ fs[modules[key]].exec = "ok"
    /\ ~fs[modules[key]].has_OPTIONS

\* C5 as claimed: `use` of the key of a file that declares no OPTIONS loads
\* it, with an empty schema and an empty option store.
C5_UseLoadsFileWithoutOPTIONS ==
    [][\A n \in UseNames :
         (cmd_use(<<n>>) /\ FileWithoutOPTIONS(resolve_key(n))) =>
            /\ out'.msg = "Loaded module"
            /\ loaded_module'.name = resolve_key(n)
            /\ loaded_module'.module.OPTIONS = <<>>
            /\ loaded_module'.options = EmptyDict]_vars

\* C6 as claimed: no command lets an exception escape the command loop.
C6_NoCommandTerminatesTheEngine == pc = "repl"

\* C7: when the run() of the loaded module raises, `run` prints a run error
\* and the session stays loaded with the same key, module and option store.
C7_FailedRunKeepsSession ==
    [][(cmd_run /\ Loaded /\ loaded_module.module.run = "raise") =>
          /\ out'.msg = "Run error:"
          /\ Loaded'
          /\ loaded_module' = loaded_module]_vars

\* a run error was printed for a session that has an override
C7_Witness == out.msg = "Run error:" /\ Loaded /\ HasOverride

\* C8: the location map and the metadata map have the same keys.
C8_SameKeys == DOMAIN modules = DOMAIN metadata

\* a file that cannot be read is registered, with a metadata entry
C8_Witness ==
    \E k \in DOMAIN modules :
        /\ modules[k] \in DOMAIN fs
        /\ ~fs[modules[k]].readable
        /\ k \in DOMAIN metadata
        /\ metadata[k] = [description |-> "", options |-> <<>>]

\* C9: a scan gives every file it finds a key of its own: there are as many
\* keys as files, and every key is the namespace of the root and the
\* relative path of the file it is mapped to.
C9_KeysAreInjective ==
    [][out'.msg = "Scanned" =>
         (cmd_scan =>
            /\ Cardinality(DOMAIN modules') = Cardinality(DOMAIN fs)
            /\ \A k \in DOMAIN modules' :
                 modules'[k] \in DOMAIN fs /\ k = KeyOf(modules'[k]))]_vars

\* a scan registered two files that have the same relative path under the
\* two roots
C9_Witness ==
    /\ out.msg = "Scanned"
    /\ \E k1, k2 \in DOMAIN modules :
         k1 # k2 /\ modules[k1].rel = modules[k2].rel

\* the two maps hold what is on disk: a key for every file and no other, the
\* file as location and what _read_meta extracts from it as metadata
InSync ==
    /\ DOMAIN modules = {KeyOf(p) : p \in DOMAIN fs}
    /\ DOMAIN metadata = {KeyOf(p) : p \in DOMAIN fs}
    /\ \A p \in DOMAIN fs :
         modules[KeyOf(p)] = p /\ metadata[KeyOf(p)] = _read_meta(fs[p])

\* C10: after a scan the two maps hold the files on disk and nothing else,
\* whatever they held before, and a scan of an unchanged disk changes
\* neither map.
C10_ScanReplacesRegistry ==
    [][out'.msg = "Scanned" =>
         (cmd_scan => /\ InSync'
                      /\ InSync => (modules' = modules /\ metadata' = metadata))]_vars

\* a scan ran after a registered example file was deleted, and its key is gone
C10_Witness ==
    /\ out.msg = "Scanned"
    /\ \E p \in {SysInfoPath, EchoPath} :
         p \notin DOMAIN fs /\ KeyOf(p) \notin DOMAIN modules
                              /\ KeyOf(p) \notin DOMAIN metadata

\* two characters that are the same letter, whatever their case
SameLetter(a, b) ==
    \/ a = b
    \/ ord(a) >= ord("A") /\ ord(a) <= ord("Z") /\ ord(b) = ord(a) + 27
    \/ ord(b) >= ord("A") /\ ord(b) <= ord("Z") /\ ord(a) = ord(b) + 27

\* needle occurs in hay, letter case ignored
ContainsIgnoringCase(needle, hay) ==
    \E i \in 0..(Len(hay) - Len(needle)) :
        \A j \in 1..Len(needle) : SameLetter(needle[j], hay[i + j])

\* a string in upper case
UpperCase(t) ==
    [i \in DOMAIN t |->
        IF ord(t[i]) >= ord("a") /\ ord(t[i]) <= ord("z") THEN Ascii[ord(t[i]) - 27] ELSE t[i]]

\* the keywords the property is checked for: those typed, and every key in
\* upper case
CheckedKeywords == Keywords \cup {UpperCase(key_str(n)) : n \in KnownNames}

\* whether an entry is to be found for a keyword, tabulated
ExpectedHit ==
    [kw \in CheckedKeywords |->
        [key \in KnownNames |->
            [d \in Descriptions |->
                \/ ContainsIgnoringCase(kw, key_str(key))
                \/ ContainsIgnoringCase(kw, Chars(d))]]]

\* the rows to be found for a keyword: the matching entries of the registry
\* in its iteration order
ExpectedRows(keys, meta, kw) ==
    LET Hit(k) == ExpectedHit[kw][k][meta[k].description]
        found == SelectSeq(keys, Hit)
    IN [i \in DOMAIN found |-> <<found[i], meta[found[i]].description>>]

\* C11: the iteration order of the registry lists every registered key once;
\* on every registry that construction or a scan leaves, a search for a
\* registered key in upper case finds that key; `search <keyword>` prints
\* exactly the entries whose key or description contains the keyword, letter
\* case ignored, in iteration order, so that `search ""` prints every key once.
C11_SearchFindsMatchingKeys ==
    /\ [](/\ Range(order) = DOMAIN metadata
          /\ Len(order) = Cardinality(DOMAIN metadata)
          /\ out.msg \in {"", "Scanned"} =>
               \A k \in DOMAIN modules :
                  LET rows == search_modules(order, metadata, UpperCase(key_str(k)))
                  IN \E i \in DOMAIN rows : rows[i][1] = k)
    /\ [][out'.msg = "search" =>
            \A kw \in Keywords :
               cmd_search(<<kw>>) =>
                  /\ out'.rows = ExpectedRows(order, metadata, kw)
                  /\ kw = <<>> => /\ Len(out'.rows) = Cardinality(DOMAIN modules)
                                  /\ {out'.rows[i][1] : i \in DOMAIN out'.rows} = DOMAIN modules]_vars

\* a search printed some of the registered keys and left others out
C11_Witness ==
    /\ out.msg = "search"
    /\ Len(out.rows) > 0
    /\ Len(out.rows) < Cardinality(DOMAIN modules)
    /\ Cardinality(DOMAIN modules) >= 3

\* the name typed starts with "modules/" or "examples/"
StartsWithNamespace(n) == Len(n) >= 2 /\ n[1] \in {"modules", "examples"}

\* some registered key is <namespace>/<name>
RegisteredUnderSomeNamespace(n) ==
    \E ns \in {"modules", "examples"} : <<ns>> \o n \in DOMAIN modules

\* the first registered candidate for a name, in the order modules, examples
FirstCandidate(n) ==
    IF <<"modules">> \o n \in DOMAIN modules THEN <<"modules">> \o n
    ELSE <<"examples">> \o n

\* the file registered under a key is on disk and loads
FileLoads(key) ==
    /\ modules[key] \in DOMAIN fs
    /\ fs[modules[key]].readable
    /\ fs[modules[key]].exec = "ok"
    /\ fs[modules[key]].has_OPTIONS

\* C12 as claimed: whenever some registered key is <namespace>/<name>,
\* `use <name>` does not report the name as not found.
C12_UseFindsNameUnderANamespace ==
    [][out'.msg = "Load error:" =>
         \A n \in UseNames :
            (cmd_use(<<n>>) /\ RegisteredUnderSomeNamespace(n)) => out'.error # "KeyError"]_vars

\* C12 amended: a name that does not start with "modules/" or "examples/"
\* and is registered under a namespace is looked up as the first registered
\* candidate in the order modules, examples: `use` does not report it as not
\* found, loads that key when its file loads, and loads no other key.  A name
\* that starts with "modules/" or "examples/" is taken as the key as typed:
\* it is reported as not found when that is no registered key.
C12_UseResolvesUnprefixedNames ==
    [][out'.msg \in {"Load error:", "Loaded module"} =>
         \A n \in UseNames :
            cmd_use(<<n>>) =>
               /\ (~StartsWithNamespace(n) /\ RegisteredUnderSomeNamespace(n)) =>
                    /\ out'.error # "KeyError"
                    /\ out'.msg = "Loaded module" => loaded_module'.name = FirstCandidate(n)
                    /\ FileLoads(FirstCandidate(n)) => out'.msg = "Loaded module"
               /\ StartsWithNamespace(n) =>
                    /\ out'.msg = "Loaded module" => loaded_module'.name = n
                    /\ n \notin DOMAIN modules =>
                         out'.msg = "Load error:" /\ out'.error = "KeyError"]_vars

\* the module under modules/ was loaded while the same relative path is
\* registered under examples/ too
C12_Witness ==
    /\ out.msg = "Loaded module"
    /\ loaded_module.name[1] = "modules"
    /\ <<"examples">> \o Tail(loaded_module.name) \in DOMAIN modules

\* the option store holds the declared defaults of the schema and nothing else
StoreIsDefaults(inst) ==
    /\ DOMAIN inst.options =
          {inst.module.OPTIONS[i].name :
              i \in {j \in DOMAIN inst.module.OPTIONS : inst.module.OPTIONS[j].has_default}}
    /\ \A i \in DOMAIN inst.module.OPTIONS :
          inst.module.OPTIONS[i].has_default =>
             inst.options[inst.module.OPTIONS[i].name] = inst.module.OPTIONS[i].default

\* C13: a `use` that loads a module, of another key or of the same key again,
\* leaves a session whose option store holds the declared defaults of the
\* module just loaded and none of the values set in the session before, so
\* get_options reports the declared default (None without one) for every option.
C13_UseStartsFromCleanStore ==
    [][out'.msg = "Loaded module" =>
         \A n \in UseNames :
            cmd_use(<<n>>) =>
               /\ StoreIsDefaults(loaded_module')
               /\ \A i \in DOMAIN Schema' :
                    get_options(loaded_module')[i].value = DeclaredDefault(Schema'[i])
               /\ \A k \in DOMAIN loaded_module'.options :
                    (k \in DOMAIN loaded_module.options
                       /\ loaded_module.options[k] \in SetValues)
                      => loaded_module'.options[k] \notin SetValues]_vars

\* a module with two options was loaded and its store holds the one declared
\* default
C13_Witness ==
    /\ out.msg = "Loaded module"
    /\ Len(Schema) = 2
    /\ StoreIsDefaults(loaded_module)
    /\ Cardinality(DOMAIN loaded_module.options) = 1

\* C14: the engine gets a session only in a `use` that loads a module, loses
\* it only in `back`, and changes the key it holds only in a `use` that loads
\* a module; a step that prints anything else than the messages of those two
\* (show, options, set, run, search, scan, a `use` that fails) leaves the
\* session loaded or not as it was, with the same key.
C14_SessionStateMachine ==
    [][/\ (~Loaded /\ Loaded') =>
            out'.msg = "Loaded module" /\ \E n \in UseNames : cmd_use(<<n>>)
       /\ (Loaded /\ ~Loaded') =>
            out'.msg = "Unloaded" /\ cmd_back
       /\ (Loaded /\ Loaded' /\ loaded_module'.name # loaded_module.name) =>
            out'.msg = "Loaded module" /\ \E n \in UseNames : cmd_use(<<n>>)
       /\ out'.msg \notin {"Loaded module", "Unloaded"} =>
            /\ Loaded' = Loaded
            /\ loaded_module'.name = loaded_module.name]_vars

\* `back` has unloaded a session
C14_Witness == out.msg = "Unloaded" /\ ~Loaded

\* the argument lists typed after `set`
SetArgs == {<<"MSG">>} \cup (SetNames \X SetValues)

\* C15: with no module loaded, `options`, `set` and `run` print the notice
\* and change nothing else: no session appears, the two maps, the session
\* context and the command loop stay as they were, and no run() is called.
C15_NoSessionCommandsAreNoOps ==
    [][(~Loaded /\ (cmd_options \/ cmd_run \/ \E a \in SetArgs : cmd_set(a))) =>
          /\ out' = Msg("No module loaded.")
          /\ ~Loaded'
          /\ UNCHANGED <<modules, metadata, order, session, pc>>]_vars

\* the notice was printed with no module loaded, with modules registered
\* under both roots
C15_Witness ==
    /\ out.msg = "No module loaded."
    /\ ~Loaded
    /\ \E k1, k2 \in DOMAIN modules : k1[1] = "modules" /\ k2[1] = "examples"

\* the metadata record _read_meta starts from
EmptyMetadata == [description |-> "", options |-> <<>>]

\* C16 as claimed: a scan goes on past a file that cannot be read, registers
\* every other file in both maps, and leaves the unreadable file out.
C16_ScanSkipsUnreadableFile ==
    [][out'.msg = "Scanned" =>
         (cmd_scan =>
            /\ pc' = "repl"
            /\ \A p \in DOMAIN fs :
                 IF fs[p].readable
                 THEN KeyOf(p) \in DOMAIN modules' /\ KeyOf(p) \in DOMAIN metadata'
                 ELSE KeyOf(p) \notin DOMAIN modules'
                         /\ KeyOf(p) \notin DOMAIN metadata')]_vars

\* C16 amended: a scan goes on past a file that cannot be read and registers
\* every file in both maps, the unreadable one too: it is the reading of its
\* metadata that is skipped, its entry is the empty record.
C16_ScanRegistersUnreadableFile ==
    [][out'.msg = "Scanned" =>
         (cmd_scan =>
            /\ pc' = "repl"
            /\ \A p \in DOMAIN fs :
                 /\ KeyOf(p) \in DOMAIN modules' /\ KeyOf(p) \in DOMAIN metadata'
                 /\ modules'[KeyOf(p)] = p
                 /\ IF fs[p].readable
                    THEN metadata'[KeyOf(p)].description = fs[p].description
                    ELSE metadata'[KeyOf(p)] = EmptyMetadata)]_vars

\* a scan registered a file that cannot be read and a file with a description
C16_Witness ==
    /\ out.msg = "Scanned"
    /\ \E p \in DOMAIN fs : ~fs[p].readable /\ KeyOf(p) \in DOMAIN modules
    /\ \E p \in DOMAIN fs :
         /\ fs[p].readable
         /\ KeyOf(p) \in DOMAIN metadata
         /\ metadata[KeyOf(p)].description = fs[p].description
         /\ fs[p].description # ""

C18_UseExecutesTheFileOnDisk ==
    [][out'.msg = "Loaded module" =>
         \A n \in UseNames :
            cmd_use(<<n>>) =>
               LET k == loaded_module'.name
               IN /\ k = resolve_key(n)
                  /\ k \in DOMAIN modules
                  /\ modules[k] \in DOMAIN fs
                  /\ loaded_module'.module = module_object(fs[modules[k]])
                  /\ Schema' = fs[modules[k]].OPTIONS
                  /\ StoreIsDefaults(loaded_module')]_vars

\* a `use` loaded a file that was rewritten with another schema after the scan
C18_Witness ==
    /\ out.msg = "Loaded module"
    /\ loaded_module.name \in DOMAIN metadata
    /\ modules[loaded_module.name] \in DOMAIN fs
    /\ loaded_module.module = module_object(fs[modules[loaded_module.name]])
    /\ metadata[loaded_module.name].options # meta_options(fs[modules[loaded_module.name]])
    /\ metadata[loaded_module.name].options # <<>>

\* C19: `scan` leaves the session as it is: same key, module object and option
\* store, also when the scan no longer finds the session's key; in a session
\* whose key is not registered `run` still calls the loaded module with the
\* store, `set` of a declared name still stores the value, and `options` still
\* reads the loaded module.
C19_ScanKeepsSession ==
    [][/\ out'.msg = "Scanned" => (cmd_scan => UNCHANGED <<loaded_module, session>>)
       /\ (Loaded /\ loaded_module.name \notin DOMAIN modules) =>
            /\ cmd_run => RunCalled' /\ out'.passed = loaded_module.options
                             /\ UNCHANGED loaded_module
            /\ cmd_options =>
                  /\ out'.msg \in {"Options for", "Traceback"}
                  /\ out'.msg = "Options for" => out'.rows = get_options(loaded_module)
                  /\ UNCHANGED loaded_module
            /\ out'.msg = "=>" =>
                  \A a \in SetNames \X SetValues :
                     cmd_set(a) =>
                        /\ a[1] \in option_names(Schema)
                        /\ loaded_module'.options = Put(loaded_module.options, a[1], a[2])
            /\ \A a \in SetNames \X SetValues :
                  (cmd_set(a) /\ a[1] \in option_names(Schema)) => out'.msg = "=>"]_vars

\* `run` was called in a session whose key a scan has dropped from the registry
C19_Witness ==
    /\ Loaded
    /\ loaded_module.name \notin DOMAIN modules
    /\ out.msg = "run returned"
    /\ HasOverride

\* C20: in a session every name of the option store is a name of the loaded
\* module's schema, and every schema name with a declared default is in the
\* store; a `set` that succeeds puts its name in the store, and no command
\* takes a name out of the store of a session that goes on.
C20_StoreKeysAreSchemaKeys ==
    /\ [](Loaded =>
            /\ DOMAIN loaded_module.options \subseteq option_names(Schema)
            /\ \A i \in DOMAIN Schema :
                  Schema[i].name \notin DOMAIN loaded_module.options => ~Schema[i].has_default)
    /\ [][/\ out'.msg = "=>" =>
               \A a \in SetNames \X SetValues :
                  cmd_set(a) => a[1] \in DOMAIN loaded_module'.options
          /\ (Loaded /\ Loaded' /\ out'.msg # "Loaded module") =>
               DOMAIN loaded_module.options \subseteq DOMAIN loaded_module'.options]_vars

\* a session whose store lacks a schema name without default and holds a set value
C20_Witness ==
    /\ Loaded
    /\ \E i \in DOMAIN Schema :
          ~Schema[i].has_default /\ Schema[i].name \notin DOMAIN loaded_module.options
    /\ \E i \in DOMAIN Schema :
          /\ Schema[i].name \in DOMAIN loaded_module.options
          /\ loaded_module.options[Schema[i].name] \in SetValues
    /\ out.msg = "Unknown option"

====
